---- MODULE Spec2Model ----
(***************************************************************************)
(* RSS -> issue tracker synchronisation scripts of jhyu-wv/sampleActions.  *)
(*                                                                         *)
(*   scripts/rss_sync.py                 RSSStateManager, RSSGitHubSync    *)
(*   scripts/mantis_rss_sync.py          the same, with a project board    *)
(*   scripts/sync_mentis.py              GitHubProjectSync                 *)
(*   .github/scripts/sync_rss_to_project.py   RSSProjectSync               *)
(*                                                                         *)
(* One process runs one script from main() to its exit; the next process   *)
(* starts from what the previous one left on disk and on the tracker.      *)
(* Strings are TLA+ strings, so that the fingerprint of an item is the     *)
(* concatenation the code hashes (md5 is taken to be injective).           *)
(*                                                                         *)
(* scripts/sync_mentis.py repeats the line "def add_issue_to_project" at   *)
(* line 269, which Python rejects; its functions are modelled as written.  *)
(***************************************************************************)
EXTENDS Naturals, Sequences, FiniteSets, TLC

\* ---------------------------------------------------------------- bounds
MaxFeedLen == 2
MaxRuns == 2

\* ------------------------------------------------------------ the values
None == "None"

Scripts == {"rss", "mantis", "project", "mentis"}

\* The feed entries the model gives rss_sync.py (link, id, title, description): an
\* entry with a link (identity "u") in two contents, an entry with an id only
\* (identity "g") in two contents whose title and description concatenate to the
\* same string, and an entry with neither link nor id.
RssItems ==
    {[link |-> "u", id |-> "", title |-> "a", description |-> ""],
     [link |-> "u", id |-> "", title |-> "ab", description |-> ""],
     [link |-> "", id |-> "g", title |-> "a", description |-> "b"],
     [link |-> "", id |-> "g", title |-> "ab", description |-> ""],
     [link |-> "", id |-> "", title |-> "a", description |-> ""]}

\* The feed entries the model gives mantis_rss_sync.py: the identity "u" in two
\* contents and the identity "g".
MantisItems ==
    {[link |-> "u", id |-> "", title |-> "a", description |-> ""],
     [link |-> "u", id |-> "", title |-> "ab", description |-> ""],
     [link |-> "", id |-> "g", title |-> "a", description |-> "b"]}

\* feed entries sync_rss_to_project.py reads (title, url, description): only the
\* title decides anything
PjTitles == {"", "a", "ab"}
PjItems == [title : PjTitles]

\* feed entries sync_mentis.py reads: the url (hashed to the identity) and the title
Urls == {"", "u"}
Titles == {"a", "ab"}
MtItems == [url : Urls, title : Titles]

RECURSIVE SeqsUpTo(_, _)
SeqsUpTo(S, n) ==
    IF n = 0 THEN {<<>>}
    ELSE LET shorter == SeqsUpTo(S, n - 1)
         IN  shorter \cup {Append(s, x) : s \in {t \in shorter : Len(t) = n - 1}, x \in S}

RssFeeds == SeqsUpTo(RssItems, MaxFeedLen)
MantisFeeds == SeqsUpTo(MantisItems, MaxFeedLen)
PjFeeds == SeqsUpTo(PjItems, MaxFeedLen)
MtFeeds == SeqsUpTo(MtItems, MaxFeedLen)

\* an Optional[int] issue number: None is 0, which Python's "if n:" treats alike
NoIssue == 0

\* Python truthiness of an issue number, of a str
TruthyInt(n) == n # 0
TruthyStr(s) == s # ""

\* dict.get(key) with the default None
Get(d, k) == IF k \in DOMAIN d THEN d[k] ELSE None

\* d[k] = v
Put(d, k, v) == [x \in DOMAIN d \cup {k} |-> IF x = k THEN v ELSE d[x]]

EmptyDict == [x \in {} |-> None]

VARIABLES
    script,          \* which script this process runs
    pc,              \* "boot" | "loop" | "exit"
    exitCode,        \* the exit code of the last process (read it when pc = "exit")
    runs,            \* processes started so far
    feed,            \* the entries the feed holds for this run
    stage,           \* how far main() got: "config" (a required variable is missing),
                     \* "load" (reading the state file raised),
                     \* "init" (a call to the tracker before the fetch failed),
                     \* "nofetch" (the fetch failed), "fetched" (it succeeded)
    rss_items,       \* what the fetch function returned
    idx,             \* 1-based position of the loop in rss_items
    file,            \* rss_sync, mantis_rss_sync: the state file on disk
    state,           \* rss_sync, mantis_rss_sync: RSSStateManager.state
    nextIssue,       \* the number the tracker gives the next issue
    counts,          \* the counters of the running sync
    calls,           \* the gateway calls of this run, in order
    pushed,          \* rss_sync: identity -> hash of the last write that succeeded
    saves,           \* rss_sync: writes of the state file in this run
    sameFeed,        \* this run reads the feed of the previous run, unchanged
    prev,            \* what the previous run did
    remote,          \* the issues on the tracker, by number
    board,           \* the numbers of the issues attached to the project board
    existing,        \* project/mentis: the result of get_existing_issues
    io,              \* what main() did to the outside before the loop, in order
    project_info,    \* mantis_rss_sync: GitHubIssueManager.project_info
    args,            \* a helper function called on its own: its arguments
    result           \* and what it returned (None before the call), or the
                     \* variables of its loop

vars == <<script, pc, exitCode, runs, feed, stage, rss_items, idx, file, state,
          nextIssue, counts, calls, pushed, saves, sameFeed, prev, remote, board,
          existing, io, project_info, args, result>>

\* the variables of the processes
procVars == <<script, pc, exitCode, runs, feed, stage, rss_items, idx, file, state,
              nextIssue, counts, calls, pushed, saves, sameFeed, prev, remote, board,
              existing, io, project_info>>

\* ------------------------------------------------- rss_sync.py: the state

\* RSSStateManager._load_state's default
NoSync == 0
EmptyState ==
    [last_sync |-> NoSync, processed_items |-> EmptyDict, github_issues |-> EmptyDict,
     \* not in the code: the title and description processed_items[id] was hashed from
     hashed |-> EmptyDict]

\* the state file: absent, text that is no JSON, bytes that are no UTF-8 text, or
\* a dump of a state
AbsentFile == [kind |-> "absent", content |-> EmptyState]
CorruptFile == [kind |-> "corrupt", content |-> EmptyState]
UndecodableFile == [kind |-> "undecodable", content |-> EmptyState]

\* RSSStateManager._load_state catches json.JSONDecodeError and IOError; reading
\* bytes that are no UTF-8 raises UnicodeDecodeError, a ValueError it does not catch
LoadRaises(f) == f.kind = "undecodable"

\* RSSStateManager._load_state
LoadState(f) == IF f.kind = "valid" THEN f.content ELSE EmptyState

\* RSSStateManager.save_state: the write succeeds, or open() raises IOError and the
\* file stays as it was, or the dump raises it after open() truncated the file;
\* the IOError is logged and swallowed
SaveOutcomes == {"ok", "open_fails", "dump_fails"}
SaveState(f, s, outcome) ==
    CASE outcome = "ok" -> [kind |-> "valid", content |-> s]
      [] outcome = "open_fails" -> f
      [] OTHER -> CorruptFile

\* RSSStateManager.get_item_hash: md5 over title + link + description
GetItemHash(item) == item.title \o item.link \o item.description

\* is_item_changed that finds every entry changed (a mutant)
IsItemChanged_Always(s, item_id, current_hash) == TRUE

\* is_item_changed with == for != (a mutant)
IsItemChanged_Inverted(s, item_id, current_hash) ==
    Get(s.processed_items, item_id) = current_hash

\* RSSStateManager.is_item_changed
IsItemChanged(s, item_id, current_hash) == Get(s.processed_items, item_id) # current_hash

\* update_item_state without its first assignment (a mutant)
UpdateItemState_NoHash(s, item, item_id, item_hash, github_issue_number) ==
    [s EXCEPT !.github_issues = Put(@, item_id, github_issue_number),
              !.hashed = Put(@, item_id, <<item.title, item.description>>)]

\* update_item_state without its second assignment (a mutant)
UpdateItemState_NoIssue(s, item, item_id, item_hash, github_issue_number) ==
    [s EXCEPT !.processed_items = Put(@, item_id, item_hash),
              !.hashed = Put(@, item_id, <<item.title, item.description>>)]

\* update_item_state that records the number after the one it is given (a mutant)
UpdateItemState_Renumber(s, item, item_id, item_hash, github_issue_number) ==
    [s EXCEPT !.processed_items = Put(@, item_id, item_hash),
              !.github_issues = Put(@, item_id, github_issue_number + 1),
              !.hashed = Put(@, item_id, <<item.title, item.description>>)]

\* RSSStateManager.update_item_state
UpdateItemState(s, item, item_id, item_hash, github_issue_number) ==
    [s EXCEPT !.processed_items = Put(@, item_id, item_hash),
              !.github_issues = Put(@, item_id, github_issue_number),
              !.hashed = Put(@, item_id, <<item.title, item.description>>)]

\* item.get('link') or item.get('id', '')
ItemId(item) == IF TruthyStr(item.link) THEN item.link ELSE item.id

\* a lookup that never finds an issue number (a mutant)
GetIssue_Forgotten(s, item_id) == NoIssue

\* github_issues.get(item_id)
GetIssue(s, item_id) == IF item_id \in DOMAIN s.github_issues THEN s.github_issues[item_id] ELSE NoIssue


\* ------------------------------------------------- rss_sync.py: the run

\* the counters sync() keeps and logs at its end
RssCounts == [processed_count |-> 0, updated_count |-> 0, created_count |-> 0]

\* the record of a call of a loop that walks the feed from its end (a mutant)
Call_Reversed(op, id, ok) == [op |-> op, id |-> id, at |-> Len(rss_items) + 1 - idx, ok |-> ok]

\* the record of a gateway call made for the entry the loop is at
Call(op, id, ok) == [op |-> op, id |-> id, at |-> idx, ok |-> ok]

\* the calls of a finished run that failed, as <<operation, identity>>
FailedCalls(cs) == {<<cs[k].op, cs[k].id>> : k \in {j \in DOMAIN cs : ~cs[j].ok}}

\* what a process that ended leaves for the claims about two runs in a row
Summary ==
    [fetched |-> stage = "fetched",
     completed |-> exitCode = 0 /\ stage = "fetched" /\ rss_items # <<>>,
     saved |-> saves = <<"ok">>,
     \* kept for rss_sync.py, whose claims ask for it
     failed |-> IF script = "rss" THEN FailedCalls(calls) ELSE {}]

NoSummary == [fetched |-> FALSE, completed |-> FALSE, saved |-> FALSE, failed |-> {}]

\* a process starts
StartProcess ==
    /\ pc = "boot"
    /\ runs < MaxRuns
    /\ runs' = runs + 1
    /\ UNCHANGED <<prev, calls, saves, idx>>

\* a process that always ends with exit code 0 (a mutant)
Exit_Zero(code) == pc' = "exit" /\ exitCode' = 0

\* the process ends with this exit code
Exit(code) == pc' = "exit" /\ exitCode' = code

\* main() of rss_sync.py up to the loop of sync(): the environment check, the
\* constructors (RSSStateManager loads the file, GitHubIssueManager calls the
\* tracker outside main's try), fetch_rss_feed and the early return on no items
RssMain ==
    /\ UNCHANGED <<args, result>>
    /\ script = "rss"
    /\ StartProcess
    /\ counts' = RssCounts
    /\ UNCHANGED <<script, file, nextIssue, pushed, remote, board, existing, project_info>>
    /\ \/ \* a required environment variable is missing: return 1
          /\ Exit(1)
          /\ rss_items' = <<>> /\ stage' = "config" /\ sameFeed' = FALSE
          /\ io' = <<>>
          /\ UNCHANGED <<feed, state>>
       \/ \* _load_state raises in RSSStateManager.__init__, outside main's try: the
          \* interpreter prints the traceback and exits with 1
          /\ LoadRaises(file)
          /\ Exit(1)
          /\ rss_items' = <<>> /\ stage' = "load" /\ sameFeed' = FALSE
          /\ io' = <<"state_dir">>
          /\ UNCHANGED <<feed, state>>
       \/ \* Github(), get_repo or get_labels raises in GitHubIssueManager.__init__
          /\ ~LoadRaises(file)
          /\ Exit(1)
          /\ state' = LoadState(file)
          /\ rss_items' = <<>> /\ stage' = "init" /\ sameFeed' = FALSE
          /\ io' = <<"state_dir", "get_repo">>
          /\ UNCHANGED feed
       \/ \* feedparser.parse raises: fetch_rss_feed returns [], sync returns, return 0
          /\ ~LoadRaises(file)
          /\ Exit(0)
          /\ state' = LoadState(file)
          /\ rss_items' = <<>> /\ stage' = "nofetch" /\ sameFeed' = FALSE
          /\ io' = <<"state_dir", "get_repo", "fetch">>
          /\ UNCHANGED feed
       \/ \* the fetch succeeds
          /\ ~LoadRaises(file)
          /\ \/ feed' \in RssFeeds /\ sameFeed' = FALSE
             \/ prev.fetched /\ feed' = feed /\ sameFeed' = TRUE
          /\ state' = LoadState(file)
          /\ stage' = "fetched"
          /\ io' = <<"state_dir", "get_repo", "fetch">>
          /\ rss_items' = feed'
          /\ IF feed' = <<>> THEN Exit(0) ELSE pc' = "loop" /\ UNCHANGED exitCode

\* create_issue_from_rss that answers with a number when the create failed (a
\* mutant)
CreateIssueFromRss_Always(ok) == nextIssue

\* create_issue_from_rss that answers None whatever happened (a mutant)
CreateIssueFromRss_Never(ok) == NoIssue

\* GitHubIssueManager.create_issue_from_rss: the number of the new issue, or None
\* when anything in it raised
CreateIssueFromRss(ok) == IF ok THEN nextIssue ELSE NoIssue

\* GitHubIssueManager._clean_title removes tags and cuts after 100 characters; no
\* title of the model holds a tag or is that long, so each stays as it is
CleanTitle(title) == title

\* GitHubIssueManager._generate_issue_body: what of the item goes into the body
\* (the link and the description; after them comes the time of the call)
GenerateIssueBody(item) == <<item.link, item.description>>

\* repo.create_issue in rss_sync.py: the issue the tracker stores, without its
\* title; id, which is not on the tracker, is the identity of the entry it was
\* created for
RssIssue(item) == [id |-> ItemId(item), body |-> GenerateIssueBody(item)]

\* GitHubIssueManager.update_issue: issue.edit(body=new_body); the new body holds
\* the time of the call, so it differs from the stored one
EditIssue(issues, issue_number, item) ==
    [issues EXCEPT ![issue_number].body = GenerateIssueBody(item)]

\* the state update of the loop without its "if existing_issue:" (a mutant)
AfterItem_Unguarded(s, item, item_id, current_hash, existing_issue) ==
    UpdateItemState(s, item, item_id, current_hash, existing_issue)

\* the state after the body of the loop of sync() for one item, given the result
\* of the gateway call it made: "if existing_issue: update_item_state(...)"
AfterItem(s, item, item_id, current_hash, existing_issue) ==
    IF TruthyInt(existing_issue)
    THEN UpdateItemState(s, item, item_id, current_hash, existing_issue)
    ELSE s

\* one iteration of the loop of RSSGitHubSync.sync
RssItem ==
    /\ UNCHANGED <<args, result>>
    /\ script = "rss"
    /\ pc = "loop"
    /\ UNCHANGED <<io, project_info>>
    /\ idx <= Len(rss_items)
    /\ idx' = idx + 1
    /\ UNCHANGED <<script, pc, exitCode, runs, feed, stage, rss_items, file, saves,
                   sameFeed, prev, board, existing>>
    /\ LET item == rss_items[idx]
           item_id == ItemId(item)
           current_hash == GetItemHash(item)
           existing_issue == GetIssue(state, item_id)
       IN  IF ~TruthyStr(item_id) \/ ~IsItemChanged(state, item_id, current_hash)
           THEN UNCHANGED <<state, nextIssue, counts, calls, pushed, remote>>
           ELSE \E ok \in BOOLEAN :
                  IF TruthyInt(existing_issue)
                  THEN \* update_issue swallows its exception and returns nothing
                       /\ calls' = Append(calls, Call("update", item_id, ok))
                       /\ counts' = [counts EXCEPT !.updated_count = @ + 1, !.processed_count = @ + 1]
                       /\ state' = AfterItem(state, item, item_id, current_hash, existing_issue)
                       /\ pushed' = IF ok THEN Put(pushed, item_id, current_hash) ELSE pushed
                       /\ remote' = IF ok THEN EditIssue(remote, existing_issue, item) ELSE remote
                       /\ UNCHANGED nextIssue
                  ELSE LET issue_number == CreateIssueFromRss(ok)
                       IN  /\ calls' = Append(calls, Call("create", item_id, ok))
                           /\ counts' = IF TruthyInt(issue_number)
                                        THEN [counts EXCEPT !.created_count = @ + 1, !.processed_count = @ + 1]
                                        ELSE counts
                           /\ state' = AfterItem(state, item, item_id, current_hash, issue_number)
                           /\ pushed' = IF ok THEN Put(pushed, item_id, current_hash) ELSE pushed
                           /\ remote' = IF ok THEN Append(remote, RssIssue(item)) ELSE remote
                           /\ nextIssue' = IF ok THEN nextIssue + 1 ELSE nextIssue

\* the end of sync(): last_sync, save_state, the log line; main returns 0
RssFinish ==
    /\ UNCHANGED <<args, result>>
    /\ script = "rss"
    /\ pc = "loop"
    /\ UNCHANGED <<io, project_info>>
    /\ idx > Len(rss_items)
    /\ \E outcome \in SaveOutcomes :
          /\ state' = [state EXCEPT !.last_sync = runs]
          /\ file' = SaveState(file, state', outcome)
          /\ saves' = Append(saves, outcome)
    /\ Exit(0)
    /\ UNCHANGED <<script, runs, feed, stage, rss_items, idx, nextIssue, counts, calls,
                   pushed, sameFeed, prev, remote, board, existing>>

\* ------------------------------------------- scripts/mantis_rss_sync.py

\* GitHubIssueManager._get_project_info: {} when the query failed or the
\* repository has no project, else the project with its status field
ProjectInfos == {"none", "found"}

\* _add_issue_to_project after the issue was created: the mutation that attaches
\* the issue to the board succeeds or not (every exception is caught and logged)
AttachOutcomes == BOOLEAN

\* _set_issue_status: the mutation succeeds, fails, or is not sent because the
\* project has no status field or no option for the status
StatusOutcomes == {"ok", "fails", "skipped"}

\* repo.create_issue in mantis_rss_sync.py: the issue the tracker stores; id,
\* which is not on the tracker, is the identity of the entry it was created for
MantisIssue(item) ==
    [id |-> ItemId(item), title |-> CleanTitle(item.title), body |-> GenerateIssueBody(item)]

\* main() of mantis_rss_sync.py up to the loop of sync(): as in rss_sync.py, and
\* GitHubIssueManager.__init__ asks for the project too
MantisMain ==
    /\ UNCHANGED <<args, result>>
    /\ script = "mantis"
    /\ StartProcess
    /\ counts' = RssCounts
    /\ UNCHANGED <<script, file, nextIssue, pushed, remote, board, existing>>
    /\ \/ \* a required environment variable is missing: return 1
          /\ Exit(1)
          /\ rss_items' = <<>> /\ stage' = "config" /\ sameFeed' = FALSE
          /\ io' = <<>>
          /\ UNCHANGED <<feed, state, project_info>>
       \/ \* _load_state raises in RSSStateManager.__init__, outside main's try
          /\ LoadRaises(file)
          /\ Exit(1)
          /\ rss_items' = <<>> /\ stage' = "load" /\ sameFeed' = FALSE
          /\ io' = <<"state_dir">>
          /\ UNCHANGED <<feed, state, project_info>>
       \/ \* Github(), get_repo or get_labels raises in GitHubIssueManager.__init__
          /\ ~LoadRaises(file)
          /\ Exit(1)
          /\ state' = LoadState(file)
          /\ rss_items' = <<>> /\ stage' = "init" /\ sameFeed' = FALSE
          /\ io' = <<"state_dir", "get_repo">>
          /\ UNCHANGED <<feed, project_info>>
       \/ \* feedparser.parse raises: fetch_rss_feed returns [], sync returns, return 0
          /\ ~LoadRaises(file)
          /\ Exit(0)
          /\ state' = LoadState(file)
          /\ project_info' \in ProjectInfos
          /\ rss_items' = <<>> /\ stage' = "nofetch" /\ sameFeed' = FALSE
          /\ io' = <<"state_dir", "get_repo", "project_info", "fetch">>
          /\ UNCHANGED feed
       \/ \* the fetch succeeds
          /\ ~LoadRaises(file)
          /\ \/ feed' \in MantisFeeds /\ sameFeed' = FALSE
             \/ prev.fetched /\ feed' = feed /\ sameFeed' = TRUE
          /\ state' = LoadState(file)
          /\ project_info' \in ProjectInfos
          /\ stage' = "fetched"
          /\ io' = <<"state_dir", "get_repo", "project_info", "fetch">>
          /\ rss_items' = feed'
          /\ IF feed' = <<>> THEN Exit(0) ELSE pc' = "loop" /\ UNCHANGED exitCode

\* the calls create_issue_from_rss makes after repo.create_issue answered: none
\* without a project, else the attach and, after it succeeded, the status
BoardCalls(item_id, attached, status) ==
    IF project_info = "none" THEN <<>>
    ELSE IF ~attached THEN <<Call("attach", item_id, FALSE)>>
    ELSE IF status = "skipped" THEN <<Call("attach", item_id, TRUE)>>
    ELSE <<Call("attach", item_id, TRUE), Call("status", item_id, status = "ok")>>

\* one iteration of the loop of RSSGitHubSync.sync in mantis_rss_sync.py; the
\* script never reads the board, so an attach is kept as a call only
MantisItem ==
    /\ UNCHANGED <<args, result>>
    /\ script = "mantis"
    /\ pc = "loop"
    /\ idx <= Len(rss_items)
    /\ idx' = idx + 1
    /\ UNCHANGED <<script, pc, exitCode, runs, feed, stage, rss_items, file, saves,
                   sameFeed, prev, existing, pushed, board, io, project_info>>
    /\ LET item == rss_items[idx]
           item_id == ItemId(item)
           current_hash == GetItemHash(item)
           existing_issue == GetIssue(state, item_id)
       IN  IF ~TruthyStr(item_id) \/ ~IsItemChanged(state, item_id, current_hash)
           THEN UNCHANGED <<state, nextIssue, counts, calls, remote>>
           ELSE IF TruthyInt(existing_issue)
           THEN \* update_issue swallows its exception and returns nothing
                \E ok \in BOOLEAN :
                  /\ calls' = Append(calls, Call("update", item_id, ok))
                  /\ counts' = [counts EXCEPT !.updated_count = @ + 1, !.processed_count = @ + 1]
                  /\ state' = AfterItem(state, item, item_id, current_hash, existing_issue)
                  /\ remote' = IF ok THEN EditIssue(remote, existing_issue, item) ELSE remote
                  /\ UNCHANGED nextIssue
           ELSE \E ok \in BOOLEAN, attached \in AttachOutcomes, status \in StatusOutcomes :
                  LET issue_number == CreateIssueFromRss(ok)
                  IN  /\ counts' = IF TruthyInt(issue_number)
                                   THEN [counts EXCEPT !.created_count = @ + 1, !.processed_count = @ + 1]
                                   ELSE counts
                      /\ state' = AfterItem(state, item, item_id, current_hash, issue_number)
                      /\ IF ok
                         THEN /\ calls' = calls \o <<Call("create", item_id, TRUE)>>
                                                \o BoardCalls(item_id, attached, status)
                              /\ remote' = Append(remote, MantisIssue(item))
                              /\ nextIssue' = nextIssue + 1
                         ELSE /\ calls' = Append(calls, Call("create", item_id, FALSE))
                              /\ UNCHANGED <<remote, nextIssue>>

\* the end of sync() in mantis_rss_sync.py: last_sync, save_state, the log line
MantisFinish ==
    /\ UNCHANGED <<args, result>>
    /\ script = "mantis"
    /\ pc = "loop"
    /\ idx > Len(rss_items)
    /\ \E outcome \in SaveOutcomes :
          /\ state' = [state EXCEPT !.last_sync = runs]
          /\ file' = SaveState(file, state', outcome)
          /\ saves' = Append(saves, outcome)
    /\ Exit(0)
    /\ UNCHANGED <<script, runs, feed, stage, rss_items, idx, nextIssue, counts, calls,
                   pushed, sameFeed, prev, remote, board, existing, io, project_info>>

\* ------------------------------- .github/scripts/sync_rss_to_project.py

\* the counter sync_rss_to_project() keeps and logs at its end
PjCounts == [new_items_count |-> 0]

\* the titles of the issues on the project board, as get_existing_issues and the
\* set comprehension after it give them; [] when the query raised
ExistingTitles(ok) == IF ok THEN {remote[n].title : n \in board} \ {""} ELSE {}

\* GitHubProjectsAPI.create_issue answers: the issue with its node_id, None after
\* an exception, or a 2xx answer whose JSON has no node_id
CreateOutcomes == {"ok", "fails", "no_node_id"}

\* an issue sync_rss_to_project.py created, with what became of its attach to the
\* board: "ok", "failed", or "never" when the loop was left before it
PjIssue(title, attach) == [title |-> title, attach |-> attach]

\* main() of sync_rss_to_project.py up to the loop: RSSProjectSync() reads the
\* environment, then get_project_info, get_existing_issues, parse_rss_feed
PjMain ==
    /\ UNCHANGED <<args, result>>
    /\ script = "project"
    /\ StartProcess
    /\ counts' = PjCounts
    /\ UNCHANGED <<script, file, state, nextIssue, pushed, remote, board, project_info>>
    /\ \/ \* _get_env_var: sys.exit(1)
          /\ Exit(1)
          /\ rss_items' = <<>> /\ stage' = "config" /\ sameFeed' = FALSE
          /\ io' = <<>>
          /\ UNCHANGED <<feed, existing>>
       \/ \* get_project_info returns None: return False, sys.exit(1)
          /\ Exit(1)
          /\ rss_items' = <<>> /\ stage' = "init" /\ sameFeed' = FALSE
          /\ io' = <<"project_info">>
          /\ UNCHANGED <<feed, existing>>
       \/ \E lookupOk \in BOOLEAN :
            /\ existing' = ExistingTitles(lookupOk)
            /\ io' = <<"project_info", "lookup", "fetch">>
            /\ \/ \* parse_rss_feed catches the exception and returns []:
                  \* return False, sys.exit(1)
                  /\ Exit(1)
                  /\ rss_items' = <<>> /\ stage' = "nofetch" /\ sameFeed' = FALSE
                  /\ UNCHANGED feed
               \/ \* the fetch succeeds; no entries: return False, sys.exit(1)
                  /\ \/ feed' \in PjFeeds /\ sameFeed' = FALSE
                     \/ prev.fetched /\ feed' = feed /\ sameFeed' = TRUE
                  /\ stage' = "fetched"
                  /\ rss_items' = feed'
                  /\ IF feed' = <<>> THEN Exit(1) ELSE pc' = "loop" /\ UNCHANGED exitCode

\* one iteration of the loop of RSSProjectSync.sync_rss_to_project; no try
\* surrounds its body
PjItem ==
    /\ UNCHANGED <<args, result>>
    /\ script = "project"
    /\ pc = "loop"
    /\ UNCHANGED <<io, project_info>>
    /\ idx <= Len(rss_items)
    /\ UNCHANGED <<script, runs, feed, stage, rss_items, file, state, pushed, saves,
                   sameFeed, prev, existing>>
    /\ LET title == rss_items[idx].title
       IN  IF ~TruthyStr(title) \/ title \in existing
           THEN /\ idx' = idx + 1
                /\ UNCHANGED <<pc, exitCode, nextIssue, counts, calls, remote, board>>
           ELSE \E created \in CreateOutcomes, attached \in BOOLEAN, fieldsSet \in BOOLEAN :
                  CASE created = "fails" ->
                         \* create_issue returned None: continue
                         /\ idx' = idx + 1
                         /\ calls' = Append(calls, Call("create", title, FALSE))
                         /\ UNCHANGED <<pc, exitCode, nextIssue, counts, remote, board>>
                    [] created = "no_node_id" ->
                         \* new_issue['node_id'] raises KeyError, which leaves the loop
                         \* and sync_rss_to_project; main catches it: sys.exit(1)
                         /\ Exit(1)
                         /\ remote' = Append(remote, PjIssue(title, "never"))
                         /\ nextIssue' = nextIssue + 1
                         /\ calls' = Append(calls, Call("create", title, FALSE))
                         /\ UNCHANGED <<idx, counts, board>>
                    [] OTHER ->
                         /\ idx' = idx + 1
                         /\ remote' = Append(remote, PjIssue(title, IF attached THEN "ok" ELSE "failed"))
                         /\ nextIssue' = nextIssue + 1
                         /\ UNCHANGED <<pc, exitCode>>
                         /\ IF ~attached
                            THEN \* add_issue_to_project returned None: continue
                                 /\ calls' = calls \o <<Call("create", title, TRUE),
                                                        Call("attach", title, FALSE)>>
                                 /\ UNCHANGED <<counts, board>>
                            ELSE \* _update_item_fields: a failure is swallowed
                                 /\ calls' = calls \o <<Call("create", title, TRUE),
                                                        Call("attach", title, TRUE),
                                                        Call("status", title, fieldsSet)>>
                                 /\ board' = board \cup {nextIssue}
                                 /\ counts' = [counts EXCEPT !.new_items_count = @ + 1]

\* the end of sync_rss_to_project(): return True, sys.exit(0)
PjFinish ==
    /\ UNCHANGED <<args, result>>
    /\ script = "project"
    /\ pc = "loop"
    /\ UNCHANGED <<io, project_info>>
    /\ idx > Len(rss_items)
    /\ Exit(0)
    /\ UNCHANGED <<script, runs, feed, stage, rss_items, idx, file, state, nextIssue,
                   counts, calls, pushed, saves, sameFeed, prev, remote, board, existing>>

\* ------------------------------------------------ scripts/sync_mentis.py

\* the counters sync() keeps and prints at its end
MtCounts == [created_count |-> 0, updated_count |-> 0, errors_count |-> 0]

\* item['hash']: the first 8 hex digits of md5(url)
UrlHash(url) == "h" \o url

\* the body create_issue posts: the url, date and description of the entry and
\* the fixed footer, here the url and no stamp
NoStamp == 0
MtCreateBody(item) == <<item.url, NoStamp>>

\* the body update_issue builds: the same text followed by the line
\* "마지막 업데이트: <datetime.now()>"
MtUpdateBody(item, now) == <<item.url, now>>

\* datetime.now() to the second, as update_issue formats it; two processes do
\* not run in the same second
Now == runs

\* the title create_issue and update_issue build: "[hash] title"
MtTitle(item_hash, title) == <<item_hash, title>>

\* the dict get_existing_issues builds, keyed by the hash in the title; the
\* tracker lists the newest issue first, so of two issues with one hash the
\* older one is left in the dict; an empty dict when a request raised
ExistingIssues(ok) ==
    IF ok
    THEN [h \in {remote[n].hash : n \in DOMAIN remote} |->
            LET n == CHOOSE m \in DOMAIN remote :
                        /\ remote[m].hash = h
                        /\ \A k \in DOMAIN remote : remote[k].hash = h => m <= k
            IN  [number |-> n, title |-> MtTitle(h, remote[n].title), body |-> remote[n].body]]
    ELSE <<>>

\* "if existing_issue['title'] != new_title or existing_issue['body'] != new_body"
PatchNeeded(existing_issue, new_title, new_body) ==
    existing_issue.title # new_title \/ existing_issue.body # new_body

\* main() of sync_mentis.py up to the loop of sync(): GitHubProjectSync() reads the
\* environment, then fetch_rss_items and get_existing_issues
MtMain ==
    /\ UNCHANGED <<args, result>>
    /\ script = "mentis"
    /\ StartProcess
    /\ counts' = MtCounts
    /\ UNCHANGED <<script, file, state, nextIssue, pushed, remote, board, project_info>>
    /\ \/ \* __init__ raises ValueError; main catches it: sys.exit(1)
          /\ Exit(1)
          /\ rss_items' = <<>> /\ stage' = "config" /\ sameFeed' = FALSE
          /\ io' = <<>>
          /\ UNCHANGED <<feed, existing>>
       \/ \* fetch_rss_items catches the exception and returns []: sync returns and
          \* main ends without sys.exit
          /\ Exit(0)
          /\ rss_items' = <<>> /\ stage' = "nofetch" /\ sameFeed' = FALSE
          /\ io' = <<"fetch">>
          /\ UNCHANGED <<feed, existing>>
       \/ \* the fetch succeeds
          /\ \/ feed' \in MtFeeds /\ sameFeed' = FALSE
             \/ prev.fetched /\ feed' = feed /\ sameFeed' = TRUE
          /\ stage' = "fetched"
          /\ rss_items' = feed'
          /\ IF feed' = <<>>
             THEN Exit(0) /\ UNCHANGED existing /\ io' = <<"fetch">>
             ELSE /\ pc' = "loop" /\ UNCHANGED exitCode
                  /\ io' = <<"fetch", "lookup">>
                  /\ \E lookupOk \in BOOLEAN : existing' = ExistingIssues(lookupOk)

\* one iteration of the loop of GitHubProjectSync.sync; update_issue, create_issue
\* and add_issue_to_project each catch every exception
MtItem ==
    /\ UNCHANGED <<args, result>>
    /\ script = "mentis"
    /\ pc = "loop"
    /\ UNCHANGED <<io, project_info>>
    /\ idx <= Len(rss_items)
    /\ idx' = idx + 1
    /\ UNCHANGED <<script, pc, exitCode, runs, feed, stage, rss_items, file, state,
                   pushed, saves, sameFeed, prev, existing>>
    /\ LET item == rss_items[idx]
           item_hash == UrlHash(item.url)
       IN  IF item_hash \in DOMAIN existing
           THEN LET existing_issue == existing[item_hash]
                    new_title == MtTitle(item_hash, item.title)
                    new_body == MtUpdateBody(item, Now)
                IN  IF PatchNeeded(existing_issue, new_title, new_body)
                    THEN \E patched \in BOOLEAN :
                           /\ calls' = Append(calls, Call("update", item_hash, patched))
                           /\ counts' = IF patched
                                        THEN [counts EXCEPT !.updated_count = @ + 1]
                                        ELSE counts
                           /\ remote' = IF patched
                                        THEN [remote EXCEPT ![existing_issue.number] =
                                                [hash |-> item_hash, title |-> item.title,
                                                 body |-> new_body]]
                                        ELSE remote
                           /\ UNCHANGED <<nextIssue, board>>
                    ELSE UNCHANGED <<calls, counts, nextIssue, remote, board>>
           ELSE \E created \in BOOLEAN, attached \in BOOLEAN :
                  IF ~created
                  THEN /\ calls' = Append(calls, Call("create", item_hash, FALSE))
                       /\ counts' = [counts EXCEPT !.errors_count = @ + 1]
                       /\ UNCHANGED <<nextIssue, remote, board>>
                  ELSE /\ calls' = calls \o <<Call("create", item_hash, TRUE),
                                              Call("attach", item_hash, attached)>>
                       /\ remote' = Append(remote, [hash |-> item_hash, title |-> item.title,
                                                    body |-> MtCreateBody(item)])
                       /\ nextIssue' = nextIssue + 1
                       /\ board' = IF attached THEN board \cup {nextIssue} ELSE board
                       /\ counts' = IF attached
                                    THEN [counts EXCEPT !.created_count = @ + 1]
                                    ELSE [counts EXCEPT !.errors_count = @ + 1]

\* the end of sync(): the totals are printed and main ends
MtFinish ==
    /\ UNCHANGED <<args, result>>
    /\ script = "mentis"
    /\ pc = "loop"
    /\ UNCHANGED <<io, project_info>>
    /\ idx > Len(rss_items)
    /\ Exit(0)
    /\ UNCHANGED <<script, runs, feed, stage, rss_items, idx, file, state, nextIssue,
                   counts, calls, pushed, saves, sameFeed, prev, remote, board, existing>>

\* the process is gone and with it its memory: the state file, the tracker and the
\* feed stay; the scheduler will start the next process
ProcessEnd ==
    /\ UNCHANGED <<args, result>>
    /\ pc = "exit"
    /\ runs < MaxRuns
    /\ pc' = "boot"
    /\ prev' = Summary
    /\ exitCode' = 0
    /\ stage' = "config"
    /\ rss_items' = <<>>
    /\ idx' = 1
    /\ state' = EmptyState
    /\ counts' = RssCounts
    /\ calls' = <<>>
    /\ saves' = <<>>
    /\ sameFeed' = FALSE
    /\ existing' = {}
    /\ io' = <<>>
    /\ project_info' = "none"
    /\ UNCHANGED <<script, runs, feed, file, nextIssue, pushed, remote, board>>

InitProc ==
    /\ script \in Scripts
    /\ pc = "boot"
    /\ exitCode = 0
    /\ runs = 0
    /\ feed = <<>>
    /\ stage = "config"
    /\ rss_items = <<>>
    /\ idx = 1
    /\ file \in (IF script \in {"rss", "mantis"}
                 THEN {AbsentFile, CorruptFile, UndecodableFile}
                 ELSE {AbsentFile})
    /\ state = EmptyState
    /\ nextIssue = 1
    /\ counts = RssCounts
    /\ calls = <<>>
    /\ pushed = EmptyDict
    /\ saves = <<>>
    /\ sameFeed = FALSE
    /\ prev = NoSummary
    /\ remote = <<>>
    /\ board = {}
    /\ existing = {}
    /\ io = <<>>
    /\ project_info = "none"

Init == InitProc /\ args = <<>> /\ result = None

Next ==
    \/ RssMain \/ RssItem \/ RssFinish
    \/ MantisMain \/ MantisItem \/ MantisFinish
    \/ PjMain \/ PjItem \/ PjFinish
    \/ MtMain \/ MtItem \/ MtFinish
    \/ ProcessEnd

Spec == Init /\ [][Next]_vars

\* the processes of rss_sync.py alone
InitRss == Init /\ script = "rss"

NextRss == RssMain \/ RssItem \/ RssFinish \/ ProcessEnd

SpecRss == InitRss /\ [][NextRss]_vars

\* the processes of mantis_rss_sync.py alone
InitMantis == Init /\ script = "mantis"

NextMantis == MantisMain \/ MantisItem \/ MantisFinish \/ ProcessEnd

SpecMantis == InitMantis /\ [][NextMantis]_vars

\* ------------------------------------------- helper functions on their own

\* no process runs while a helper function is looked at
NoProc == InitProc /\ script = "rss" /\ file = AbsentFile

\* feed entries as feedparser gives them: the link and the id of an entry
EntryLinks == {"", "u", "v"}
EntryIds == {"", "g", "h"}
Entries == [link : EntryLinks, id : EntryIds]

\* the item fetch_rss_items of sync_mentis.py builds from an entry: the id is
\* kept as 'guid' and the hash is taken of the url alone
FetchedItem(entry) ==
    [url |-> entry.link, guid |-> entry.id, hash |-> UrlHash(entry.link)]

\* two entries of one feed, and the script that reads them
InitIdentity ==
    /\ NoProc
    /\ args \in {"rss", "mentis"} \X Entries \X Entries
    /\ result = None

\* rss_sync.py: item_id = item.get('link') or item.get('id', '')
IdentityRss ==
    /\ args[1] = "rss" /\ result = None
    /\ result' = <<ItemId(args[2]), ItemId(args[3])>>
    /\ UNCHANGED <<procVars, args>>

\* sync_mentis.py: item['hash']
IdentityMentis ==
    /\ args[1] = "mentis" /\ result = None
    /\ result' = <<FetchedItem(args[2]).hash, FetchedItem(args[3]).hash>>
    /\ UNCHANGED <<procVars, args>>

NextIdentity == IdentityRss \/ IdentityMentis

SpecIdentity == InitIdentity /\ [][NextIdentity]_vars

\* status_keywords of _determine_status in mantis_rss_sync.py, in the order of the
\* dict; of the keywords of each status the English ones are kept ('진행', '개발중',
\* '완료', '출시', '차단', '문제', '리뷰', '검토', '확인' are handled like them)
StatusKeywords ==
    <<[status |-> "In Progress", keywords |-> {"working", "developing"}],
      [status |-> "Done", keywords |-> {"finished", "completed"}],
      [status |-> "Blocked", keywords |-> {"blocked", "issue"}],
      [status |-> "Review", keywords |-> {"review"}]>>

\* a title or a description: one word, or nothing
Words == {"", "Working", "finished", "BLOCKED", "reviewed", "issue", "hello"}

\* str.lower()
Lower(word) ==
    CASE word = "Working" -> "working"
      [] word = "BLOCKED" -> "blocked"
      [] OTHER -> word

\* "keyword in word" of Python: the keyword is a substring of the word
KeywordIn(keyword, word) ==
    \/ word = keyword
    \/ word = "reviewed" /\ keyword = "review"

\* content = f"{title} {description}", both lower-cased
Content(rss_item) == <<Lower(rss_item.title), Lower(rss_item.description)>>

\* any(keyword in content for keyword in keywords)
AnyKeyword(keywords, content) ==
    \E keyword \in keywords, k \in DOMAIN content : KeywordIn(keyword, content[k])

\* the loop of _determine_status from its k-th rule on, and the default after it
RECURSIVE DetermineStatusFrom(_, _, _, _)
DetermineStatusFrom(k, rss_item, status_options, default_status) ==
    IF k > Len(StatusKeywords) THEN default_status
    ELSE IF /\ AnyKeyword(StatusKeywords[k].keywords, Content(rss_item))
            /\ StatusKeywords[k].status \in status_options
         THEN StatusKeywords[k].status
         ELSE DetermineStatusFrom(k + 1, rss_item, status_options, default_status)

\* _determine_status that returns the status of the first rule with a keyword,
\* an option of the project or not (a mutant)
DetermineStatus_AnyStatus(rss_item, status_options, default_status) ==
    LET hit == {k \in DOMAIN StatusKeywords :
                   AnyKeyword(StatusKeywords[k].keywords, Content(rss_item))}
    IN  IF hit = {} THEN default_status
        ELSE StatusKeywords[CHOOSE k \in hit : \A j \in hit : k <= j].status

\* GitHubIssueManager._determine_status
DetermineStatus(rss_item, status_options, default_status) ==
    DetermineStatusFrom(1, rss_item, status_options, default_status)

\* the names of the options of the status field of a project, and the values of
\* DEFAULT_ISSUE_STATUS
OptionNames == {"In Progress", "Done", "Blocked", "Review", "QA-issue"}
DefaultStatuses == {"QA-issue", "Todo"}

\* an item, the options of the project and the default status
InitStatus ==
    /\ NoProc
    /\ args \in [title : Words, description : Words] \X (SUBSET OptionNames) \X DefaultStatuses
    /\ result = None

\* one call of _determine_status
DetermineStatusCall ==
    /\ result = None
    /\ result' = DetermineStatus(args[1], args[2], args[3])
    /\ UNCHANGED <<procVars, args>>

NextStatus == DetermineStatusCall

SpecStatus == InitStatus /\ [][NextStatus]_vars

\* a feed title as its characters: brackets and one other character
MaxTitleLen == 4
TitleChars == {"[", "]", "x"}
BracketTitles == SeqsUpTo(TitleChars, MaxTitleLen)

\* the hex digits of item['hash'], kept as one character that is no bracket
HashChars == {"h", "k"}

\* create_issue of sync_mentis.py: title = f"[{item['hash']}] {item['title']}"
CreatedTitle(item_hash, title) == <<"[", item_hash, "]", " ">> \o title

\* the positions of a character in a string
Positions(str, c) == {k \in DOMAIN str : str[k] = c}

\* str.split(c)[-1]: what follows the last c, the whole string without any
SplitLast(str, c) ==
    IF Positions(str, c) = {} THEN str
    ELSE LET last == CHOOSE k \in Positions(str, c) : \A j \in Positions(str, c) : j <= k
         IN  SubSeq(str, last + 1, Len(str))

\* str.split(c)[0]: what precedes the first c, the whole string without any
SplitFirst(str, c) ==
    IF Positions(str, c) = {} THEN str
    ELSE LET first == CHOOSE k \in Positions(str, c) : \A j \in Positions(str, c) : k <= j
         IN  SubSeq(str, 1, first - 1)

\* get_existing_issues of sync_mentis.py: the key under which an issue with this
\* title is put into the dict, None for a title without both brackets
HashPart(title) ==
    IF Positions(title, "[") # {} /\ Positions(title, "]") # {}
    THEN SplitFirst(SplitLast(title, "["), "]")
    ELSE None

\* a hash and a feed title
InitTitle ==
    /\ NoProc
    /\ args \in HashChars \X BracketTitles
    /\ result = None

\* the issue is created with its title and a later lookup reads the title back
TitleRoundTrip ==
    /\ result = None
    /\ result' = <<HashPart(CreatedTitle(args[1], args[2]))>>
    /\ UNCHANGED <<procVars, args>>

NextTitle == TitleRoundTrip

SpecTitle == InitTitle /\ [][NextTitle]_vars

\* get_existing_issues of sync_rss_to_project.py and of sync_mentis.py, request by
\* request.  The tracker holds a list of items and answers PageSize of them per
\* request (100 in both scripts).  An item of a project is an issue with a title
\* or has no content (a draft); an issue of sync_mentis.py has a title with
\* brackets or without.
PageSize == 2
MaxRemote == 5
ItemKinds == {"titled", "other"}
RemoteLists == SeqsUpTo(ItemKinds, MaxRemote)

\* the positions of the items a request answers: those after the cursor, or
\* those of the numbered page
PageAfter(items, cursor) ==
    {k \in DOMAIN items : cursor < k /\ k <= cursor + PageSize}
PageNumbered(items, page) == PageAfter(items, (page - 1) * PageSize)

\* the positions of a page in their order, and those of them the loops keep: "if
\* item and item.get('content') and item['content'].get('title')", respectively
\* "if '[' in title and ']' in title"
RECURSIVE Ascending(_)
Ascending(S) ==
    IF S = {} THEN <<>>
    ELSE LET least == CHOOSE k \in S : \A j \in S : k <= j
         IN  <<least>> \o Ascending(S \ {least})
Kept(items, S) == Ascending({k \in S : items[k] = "titled"})

\* the greatest position of a page: pageInfo.endCursor, 0 for null
EndCursor(S) == IF S = {} THEN 0 ELSE CHOOSE k \in S : \A j \in S : j <= k

\* pageInfo.hasNextPage
HasNextPage(items, S) == EndCursor(S) < Len(items) /\ S # {}

\* sync_mentis.py that takes every page for the last one (a mutant)
LastPage_Always(issues) == TRUE

\* sync_mentis.py: "if len(issues) < 100: break"
LastPage(issues) == Cardinality(issues) < PageSize

\* a script, the items of the tracker, and the variables of the loop before its
\* first request: cursor = None, page = 1
InitPages ==
    /\ NoProc
    /\ args \in [script : {"project", "mentis"}, items : RemoteLists]
    /\ result = [requests |-> <<>>, all_issues |-> <<>>,
                 pos |-> IF args.script = "project" THEN 0 ELSE 1,
                 done |-> FALSE, failed |-> FALSE]

\* the request raised: the except clause returns an empty collection
RequestFailed(key) ==
    result' = [result EXCEPT !.requests = Append(@, key), !.all_issues = <<>>,
                             !.done = TRUE, !.failed = TRUE]

\* one pass of the while loop of GitHubProjectsAPI.get_existing_issues
PjPage ==
    /\ args.script = "project" /\ ~result.done
    /\ UNCHANGED <<procVars, args>>
    /\ \E ok \in BOOLEAN :
          IF ~ok THEN RequestFailed(result.pos)
          ELSE LET nodes == PageAfter(args.items, result.pos)
               IN  result' = [result EXCEPT
                                !.requests = Append(@, result.pos),
                                !.all_issues = @ \o Kept(args.items, nodes),
                                !.done = ~HasNextPage(args.items, nodes),
                                !.pos = IF HasNextPage(args.items, nodes)
                                        THEN EndCursor(nodes) ELSE @]

\* one pass of the while loop of GitHubProjectSync.get_existing_issues
MtPage ==
    /\ args.script = "mentis" /\ ~result.done
    /\ UNCHANGED <<procVars, args>>
    /\ \E ok \in BOOLEAN :
          IF ~ok THEN RequestFailed(result.pos)
          ELSE LET issues == PageNumbered(args.items, result.pos)
               IN  IF issues = {}
                   THEN result' = [result EXCEPT !.requests = Append(@, result.pos),
                                                 !.done = TRUE]
                   ELSE result' = [result EXCEPT
                                     !.requests = Append(@, result.pos),
                                     !.all_issues = @ \o Kept(args.items, issues),
                                     !.pos = @ + 1,
                                     !.done = LastPage(issues)]

NextPages == PjPage \/ MtPage

\* each loop runs on until it returns
SpecPages == InitPages /\ [][NextPages]_vars /\ WF_vars(NextPages)

\* ------------------------------------------------------------ the claims

\* the positions of a feed whose entry has an identity
WithId(f) == {k \in DOMAIN f : ItemId(f[k]) # ""}

\* every entry has an identity and no two entries share one
DistinctIdentities(f) ==
    /\ WithId(f) = DOMAIN f
    /\ \A j, k \in DOMAIN f : ItemId(f[j]) = ItemId(f[k]) => j = k

\* entries that share an identity have the same hash
SameIdSameHash(f) ==
    \A j, k \in WithId(f) : ItemId(f[j]) = ItemId(f[k]) => GetItemHash(f[j]) = GetItemHash(f[k])

\* the calls of this run for an identity
CallsFor(op, id) == {k \in DOMAIN calls : calls[k].op = op /\ calls[k].id = id}

\* the previous run ran its loop to the end, none of its calls failed and its
\* state reached the disk; this run reads the same feed
SecondCleanRun ==
    /\ script = "rss"
    /\ sameFeed
    /\ prev.completed /\ prev.saved /\ prev.failed = {}

C2_FingerprintIsLastPushed ==
    script = "rss" /\ pc = "loop" =>
        \A id \in DOMAIN state.processed_items :
            id \in DOMAIN pushed /\ state.processed_items[id] = pushed[id]

\* C3: a create or an update that fails in run k leaves the state of its identity
\* as run k found it, and run k+1 over the same feed attempts it again. Stated for
\* feeds whose entries have distinct identities. The file is written at the end of
\* the run only, so during the loop it holds the state the run started from.
C3_FailedCallIsRetried ==
    script = "rss" /\ DistinctIdentities(feed) =>
        /\ pc = "loop" =>
              \A c \in FailedCalls(calls) :
                  /\ Get(state.processed_items, c[2]) = Get(LoadState(file).processed_items, c[2])
                  /\ GetIssue(state, c[2]) = GetIssue(LoadState(file), c[2])
        /\ pc = "exit" /\ sameFeed /\ prev.completed =>
              \A c \in prev.failed : CallsFor(c[1], c[2]) # {}

\* the run of C4: the first run, from the empty state, over entries with distinct
\* identities, ended, and exactly one of its calls failed
C4_OneCreateFailed ==
    /\ script = "rss" /\ runs = 1 /\ pc = "exit" /\ stage = "fetched"
    /\ rss_items # <<>> /\ DistinctIdentities(rss_items)
    /\ Cardinality({k \in DOMAIN calls : ~calls[k].ok}) = 1

\* the other identities are in the state and the one whose create failed is not
C4_OthersPresent ==
    \A k \in DOMAIN calls :
        /\ calls[k].op = "create"
        /\ calls[k].ok <=> calls[k].id \in DOMAIN state.processed_items
        /\ calls[k].ok <=> calls[k].id \in DOMAIN state.github_issues

C5_FetchFailureIsFatal ==
    script \in {"rss", "mentis"} /\ pc = "exit" /\ stage = "nofetch" =>
        /\ exitCode # 0
        /\ calls = <<>> /\ idx = 1
        /\ saves = <<>>

\* C6: a fetch that succeeds with zero entries ends with exit code 0 and without
\* a create or an update (sync_rss_to_project.py and rss_sync.py).
C6_EmptyFeedExitsZero ==
    script \in {"project", "rss"} /\ pc = "exit" /\ stage = "fetched" /\ feed = <<>> =>
        /\ exitCode = 0
        /\ calls = <<>>

\* C7: a process whose configuration is present and whose fetch succeeded exits
\* with 0, whatever gateway calls failed for its entries; a non-zero exit needs a
\* failed fetch or missing configuration. Stated for the processes that made a
\* gateway call for an entry.
C7_ExitContract ==
    pc = "exit" /\ calls # <<>> =>
        /\ stage = "fetched" => exitCode = 0
        /\ exitCode # 0 => stage \in {"nofetch", "config"}

\* C8: no failing or malformed answer of the gateway for one entry ends the loop:
\* a process that fetched its feed exits only after the loop visited every entry.
C8_LoopVisitsEveryEntry ==
    pc = "exit" /\ stage = "fetched" => idx > Len(rss_items)

\* the loop of sync() is at an entry and this step is its iteration
AtItem == script = "rss" /\ pc = "loop" /\ idx <= Len(rss_items) /\ idx' = idx + 1

\* this step makes exactly one gateway call, op, for the identity of the entry
OneCall(op, id) ==
    /\ Len(calls') = Len(calls) + 1
    /\ SubSeq(calls', 1, Len(calls)) = calls
    /\ calls'[Len(calls')].op = op
    /\ calls'[Len(calls')].id = id
    /\ calls'[Len(calls')].at = idx

\* no entry of the feed has two calls in one run
OneCallPerEntry == \A j, k \in DOMAIN calls : calls[j].at = calls[k].at => j = k

\* the identity of the entry the loop is at is no key of the state
NewIdentity ==
    /\ ItemId(rss_items[idx]) \notin DOMAIN state.processed_items
    /\ ItemId(rss_items[idx]) \notin DOMAIN state.github_issues

\* C9 as stated: an entry whose identity is no key of the state when the loop
\* reaches it gets exactly one create call, no update and no second create.
C9_NewIdentityAnyEntry ==
    [][AtItem /\ NewIdentity => OneCall("create", ItemId(rss_items[idx]))]_vars

\* C9, amended: the same, for an entry that has an identity (a link or an id); an
\* entry with neither is skipped.
C9_NewIdentityDetection ==
    /\ [][AtItem /\ NewIdentity /\ ItemId(rss_items[idx]) # ""
            => OneCall("create", ItemId(rss_items[idx]))]_vars
    /\ [](script = "rss" => OneCallPerEntry)

\* a create was attempted for the second entry of a feed, the first one's done
C9_Witness ==
    /\ script = "rss" /\ Len(calls) = MaxFeedLen
    /\ \A k \in DOMAIN calls : calls[k].op = "create"

\* the entry the loop is at has an identity recorded with an issue number, and its
\* title or description differs from what was hashed at the last sync
ContentChanged ==
    LET item == rss_items[idx]
        id == ItemId(item)
    IN  /\ TruthyInt(GetIssue(state, id))
        /\ id \in DOMAIN state.hashed
        /\ state.hashed[id] # <<item.title, item.description>>

\* C10: for an identity recorded with an issue number, an entry whose title or
\* description differs from the content hashed at the last sync gets exactly one
\* update_issue call and no create call.
\* Stated for feeds whose entries have distinct identities.
C10_FingerprintSensitivity ==
    [][AtItem /\ DistinctIdentities(rss_items) /\ ContentChanged
         => OneCall("update", ItemId(rss_items[idx]))]_vars

\* C11: a process that finds required configuration missing exits non-zero, and
\* before that it fetched nothing, called the tracker for nothing and wrote no
\* state file (all four scripts).
C11_ConfigAbsentAborts ==
    [][pc = "boot" /\ pc' = "exit" /\ stage' = "config" =>
          /\ exitCode' # 0
          /\ io' = <<>> /\ calls' = <<>> /\ saves' = <<>>
          /\ file' = file /\ remote' = remote /\ board' = board
          /\ nextIssue' = nextIssue]_vars

\* a process of sync_rss_to_project.py found its configuration missing after an
\* earlier one had filed issues
C11_Witness == script = "project" /\ pc = "exit" /\ stage = "config" /\ remote # <<>>

\* C12: when the state file is absent or cannot be parsed, the process starts from
\* the empty state and goes on as a first run: reading the file does not end it.
C12_StateLoadNeverFatal ==
    [][/\ script = "rss" /\ pc = "boot" /\ pc' # "boot"
       /\ file.kind \in {"absent", "corrupt", "undecodable"}
       /\ stage' # "config"
       => stage' # "load" /\ state' = EmptyState]_vars

\* the issue a state records for an identity is on the tracker and was created
\* for that identity
RecordsAreIssues(s) ==
    \A id \in DOMAIN s.processed_items \cup DOMAIN s.github_issues :
        /\ id \in DOMAIN s.github_issues
        /\ s.github_issues[id] \in DOMAIN remote
        /\ remote[s.github_issues[id]].id = id

\* C13: every identity that is a key of the state, in memory or on disk, maps to
\* the number of an issue that a successful create call for that identity returned.
C13_NoOrphanRecords == script = "rss" => RecordsAreIssues(state) /\ RecordsAreIssues(file.content)

\* the second run recorded two identities after the first run's issues were lost
\* with its state
C13_Witness ==
    /\ script = "rss" /\ runs = 2 /\ pc = "exit"
    /\ Cardinality(DOMAIN state.github_issues) = 2 /\ Len(remote) > 2

\* the loop of sync() in mantis_rss_sync.py is at an entry and this step is its
\* iteration
AtMantisItem == script = "mantis" /\ pc = "loop" /\ idx <= Len(rss_items) /\ idx' = idx + 1

\* the gateway calls this step makes
NewCalls == SubSeq(calls', Len(calls) + 1, Len(calls'))

\* the entry the loop is at is an UPDATE: its identity is recorded with an issue
\* number and with another hash
IsUpdate ==
    LET item == rss_items[idx]
    IN  /\ TruthyStr(ItemId(item))
        /\ TruthyInt(GetIssue(state, ItemId(item)))
        /\ IsItemChanged(state, ItemId(item), GetItemHash(item))

\* C14: an UPDATE in mantis_rss_sync.py makes the one update call and no attach or
\* status call, leaves every recorded issue number as it was and changes nothing
\* of the state but the hash of the identity.
C14_UpdateFrame ==
    [][AtMantisItem /\ IsUpdate =>
          LET item == rss_items[idx]
          IN  /\ Len(NewCalls) = 1
              /\ NewCalls[1].op = "update" /\ NewCalls[1].id = ItemId(item)
              /\ state'.github_issues = state.github_issues
              /\ state'.processed_items =
                     Put(state.processed_items, ItemId(item), GetItemHash(item))
              /\ state'.last_sync = state.last_sync
              /\ nextIssue' = nextIssue /\ Len(remote') = Len(remote)
              /\ board' = board]_vars

\* a process of mantis_rss_sync.py that found the project updated an issue
C14_Witness ==
    /\ script = "mantis" /\ project_info = "found"
    /\ \E k \in DOMAIN calls : calls[k].op = "update" /\ calls[k].ok

\* this step is a successful update_issue for an issue whose title on the tracker
\* is not the title of the entry
TitleChangedUpdate ==
    /\ AtMantisItem /\ IsUpdate
    /\ Len(NewCalls) = 1 /\ NewCalls[1].op = "update" /\ NewCalls[1].ok
    /\ remote[GetIssue(state, ItemId(rss_items[idx]))].title # CleanTitle(rss_items[idx].title)

\* the loop of sync_mentis.py is at an entry whose issue, found by the lookup, has
\* the title and the url of the entry
AtUnchangedMtItem ==
    /\ script = "mentis" /\ pc = "loop" /\ idx <= Len(rss_items) /\ idx' = idx + 1
    /\ LET item == rss_items[idx]
           item_hash == UrlHash(item.url)
       IN  /\ item_hash \in DOMAIN existing
           /\ existing[item_hash].title = MtTitle(item_hash, item.title)
           /\ existing[item_hash].body[1] = item.url

\* C15: for an issue an earlier run created and an entry with the same title, url,
\* date and description, sync_mentis.py sends no PATCH and counts no update.
C15_UnchangedItemNoPatch ==
    [][AtUnchangedMtItem => calls' = calls /\ counts' = counts]_vars

\* C16: after a successful update_issue for an entry whose title changed, the
\* issue on the tracker has the cleaned new title and the body generated from the
\* entry.
C16_UpdatePushesTitleAndBody ==
    [][TitleChangedUpdate =>
          LET item == rss_items[idx]
              n == GetIssue(state, ItemId(item))
          IN  /\ remote'[n].title = CleanTitle(item.title)
              /\ remote'[n].body = GenerateIssueBody(item)]_vars

\* this step created an issue and then failed to attach it or to set its status
BoardCallFailed ==
    /\ AtMantisItem
    /\ NewCalls # <<>> /\ NewCalls[1].op = "create" /\ NewCalls[1].ok
    /\ \E k \in DOMAIN NewCalls : NewCalls[k].op \in {"attach", "status"} /\ ~NewCalls[k].ok

\* C17: when the create succeeds and the attach or the status call fails, the
\* record {identity, hash, issue number} is in the state, the entry counts as
\* created and the loop goes on to the next entry.
C17_BoardIsBestEffort ==
    /\ [][BoardCallFailed =>
             LET item == rss_items[idx]
             IN  /\ Get(state'.processed_items, ItemId(item)) = GetItemHash(item)
                 /\ GetIssue(state', ItemId(item)) = nextIssue
                 /\ remote'[nextIssue].id = ItemId(item)
                 /\ counts'.created_count = counts.created_count + 1
                 /\ counts'.processed_count = counts.processed_count + 1
                 /\ pc' = "loop"]_vars
    /\ [](script = "mantis" /\ pc = "exit" /\ stage = "fetched" => idx > Len(rss_items))

\* an attach failed for one entry and the loop made a call for a later one
C17_Witness ==
    /\ script = "mantis"
    /\ \E j, k \in DOMAIN calls :
          /\ calls[j].op = "attach" /\ ~calls[j].ok
          /\ calls[k].at > calls[j].at

\* the identity of this entry is recorded with the hash the entry has now
IsSkip(item) ==
    /\ TruthyStr(ItemId(item))
    /\ ItemId(item) \in DOMAIN state.processed_items
    /\ state.processed_items[ItemId(item)] = GetItemHash(item)

\* C18: a SKIP in rss_sync.py makes no call to the tracker and leaves
\* processed_items, github_issues, the counters and the tracker as they were.
C18_SkipFrame ==
    [][script = "rss" /\ pc = "loop" /\ idx <= Len(rss_items) /\ idx' = idx + 1
       /\ IsSkip(rss_items[idx])
       => /\ calls' = calls
          /\ state' = state
          /\ counts' = counts
          /\ remote' = remote /\ nextIssue' = nextIssue]_vars

\* the loop of a later process went past an entry that is recorded with its hash
\* and made no call for it
C18_Witness ==
    /\ script = "rss" /\ pc = "loop" /\ idx > 1 /\ runs > 1
    /\ IsSkip(rss_items[idx - 1])
    /\ \A k \in DOMAIN calls : calls[k].at # idx - 1

\* C19: a run of rss_sync.py whose fetch succeeded sets last_sync and calls
\* save_state exactly once, and only after the last entry of the feed.
C19_SingleSaveAfterLoop ==
    /\ [](script = "rss" /\ pc = "exit" /\ stage = "fetched"
            => Len(saves) = 1 /\ state.last_sync = runs)
    /\ [][script = "rss" /\ Len(saves') > Len(saves)
            => pc = "loop" /\ idx > Len(rss_items)]_vars

\* the key under which the loop handles the entry it is at: the identity in
\* rss_sync.py, item['hash'] in sync_mentis.py
ItemKey == IF script = "rss" THEN ItemId(rss_items[idx]) ELSE UrlHash(rss_items[idx].url)

\* the key of an issue on the tracker
IssueKey(issue) == IF script = "rss" THEN issue.id ELSE issue.hash

\* this step touches the tracker and the state for the entry at idx only
OnlyThisItem ==
    /\ idx' = idx + 1
    /\ \A k \in DOMAIN NewCalls : NewCalls[k].at = idx /\ NewCalls[k].id = ItemKey
    /\ SubSeq(calls', 1, Len(calls)) = calls
    /\ \A n \in DOMAIN remote' :
          (n \notin DOMAIN remote \/ remote'[n] # remote[n]) => IssueKey(remote'[n]) = ItemKey
    /\ script = "rss" =>
          \A id \in (DOMAIN state'.processed_items \cup DOMAIN state'.github_issues) \ {ItemKey} :
             /\ Get(state'.processed_items, id) = Get(state.processed_items, id)
             /\ GetIssue(state', id) = GetIssue(state, id)

\* C20: the entries are handled one at a time in feed order: each step of the loop
\* makes the calls and the state changes of the entry it is at and of no other,
\* and the calls of a run are in the order of the feed.
C20_FeedOrder ==
    /\ [][(script \in {"rss", "mentis"}) /\ pc = "loop" /\ idx <= Len(rss_items)
            => OnlyThisItem]_vars
    /\ [](script \in {"rss", "mentis"} =>
            \A k \in DOMAIN calls :
               /\ calls[k].at < idx
               /\ k > 1 => calls[k - 1].at <= calls[k].at)

\* a run made calls for its first entry and then for its second, another one
C20_Witness ==
    /\ script \in {"rss", "mentis"} /\ pc = "exit"
    /\ \E j, k \in DOMAIN calls :
          /\ j < k /\ calls[j].at = 1 /\ calls[k].at = 2
          /\ calls[j].id # calls[k].id

\* C21: two entries with a url have the same identity exactly when they have the
\* same url, and two entries without a url and with distinct ids have distinct
\* identities, in rss_sync.py and in sync_mentis.py.
C21_IdentityDerivation ==
    result # None =>
       LET a == args[2]
           b == args[3]
       IN  /\ a.link # "" /\ b.link # "" => (result[1] = result[2] <=> a.link = b.link)
           /\ a.link = "" /\ b.link = "" /\ a.id # b.id => result[1] # result[2]

\* the rules that fire for these arguments: a keyword is in the content and the
\* status is an option of the project
FiringRules ==
    {k \in DOMAIN StatusKeywords :
        /\ StatusKeywords[k].status \in args[2]
        /\ \E keyword \in StatusKeywords[k].keywords :
              \/ KeywordIn(keyword, Lower(args[1].title))
              \/ KeywordIn(keyword, Lower(args[1].description))}

\* C22: _determine_status returns the status of the first rule, in the order In
\* Progress, Done, Blocked, Review, that has a keyword in the lower-cased title
\* and description and is an option of the project, and the default status when
\* there is none; the result is the default or an option.
C22_DetermineStatus ==
    result # None =>
       /\ IF FiringRules = {}
          THEN result = args[3]
          ELSE \E k \in FiringRules :
                  /\ \A j \in FiringRules : k <= j
                  /\ result = StatusKeywords[k].status
       /\ result \in args[2] \cup {args[3]}

\* a title with a keyword of Blocked and a description with one of Review, in a
\* project that has no Blocked option: the result is Review
C22_Witness ==
    /\ result = "Review"
    /\ args[1].title = "BLOCKED" /\ args[1].description = "reviewed"
    /\ "Blocked" \notin args[2]

\* C23: the key get_existing_issues extracts from the title "[h] t" that
\* create_issue gave an issue is h, for every feed title t.
C23_TitleRoundTrip == result # None => result[1] = <<args[1]>>

\* the loop of sync_rss_to_project.py, after a lookup that found issues on the
\* board, is at an entry of the feed of the previous run for whose title an issue
\* was created and its attach failed
AtUnattachedTitle ==
    /\ script = "project" /\ pc = "loop" /\ idx <= Len(rss_items)
    /\ sameFeed /\ existing # {}
    /\ \E n \in DOMAIN remote :
          remote[n].title = rss_items[idx].title /\ remote[n].attach = "failed"

\* C24: after create_issue succeeded for a title and add_issue_to_project failed,
\* the next run over the same feed creates no second issue with that title.
C24_NoDuplicateAfterFailedAttach ==
    [][AtUnattachedTitle => Len(remote') = Len(remote)]_vars

\* the loop is at an entry that had a tracked issue before this run began (an
\* issue with its hash in sync_mentis.py, an issue with its title on the board
\* in sync_rss_to_project.py) and the lookup of this run, having failed, does
\* not hold it
AtTrackedItemAfterFailedLookup ==
    /\ pc = "loop" /\ idx <= Len(rss_items)
    /\ \/ /\ script = "mentis"
          /\ LET item_hash == UrlHash(rss_items[idx].url)
             IN  /\ \E n \in DOMAIN remote : remote[n].hash = item_hash
                 /\ \A k \in DOMAIN calls : calls[k].id # item_hash
                 /\ item_hash \notin DOMAIN existing
       \/ /\ script = "project"
          /\ LET title == rss_items[idx].title
             IN  /\ \E n \in board : remote[n].title = title
                 /\ \A k \in DOMAIN calls : calls[k].id # title
                 /\ title \notin existing

\* C25: when get_existing_issues fails, sync_mentis.py and sync_rss_to_project.py
\* create no issue for an entry that has a tracked issue already.
C25_FailedLookupCreatesNothing ==
    [][AtTrackedItemAfterFailedLookup => Len(remote') = Len(remote)]_vars

\* C26: after a process of rss_sync.py that ended with exit code 0, every identity
\* for which it created an issue is recorded in the state file on disk.
C26_CreatedIsPersisted ==
    script = "rss" /\ pc = "exit" /\ exitCode = 0 =>
       \A k \in DOMAIN calls :
          calls[k].op = "create" /\ calls[k].ok =>
             /\ file.kind = "valid"
             /\ calls[k].id \in DOMAIN file.content.github_issues

\* C27: one run of sync_rss_to_project.py (by title) or of sync_mentis.py (by the
\* hash of the url) creates at most one issue for an identity.
C27_OneCreatePerIdentity ==
    script \in {"project", "mentis"} =>
       \A j, k \in DOMAIN calls :
          /\ calls[j].op = "create" /\ calls[j].ok
          /\ calls[k].op = "create" /\ calls[k].ok
          /\ calls[j].id = calls[k].id
          => j = k

\* this run of rss_sync.py created the issue of the identity of the entry the
\* loop is at
CreatedInThisRun ==
    /\ script = "rss" /\ pc = "loop" /\ idx <= Len(rss_items)
    /\ \E k \in DOMAIN calls :
          calls[k].op = "create" /\ calls[k].ok /\ calls[k].id = ItemId(rss_items[idx])

\* C28: in one run of rss_sync.py at most one create succeeds for an identity; a
\* later entry with the identity is skipped when it has the content of the
\* created one and is an update otherwise.
C28_OneCreatePerIdentityRss ==
    /\ [](script = "rss" =>
            \A j, k \in DOMAIN calls :
               /\ calls[j].op = "create" /\ calls[j].ok
               /\ calls[k].op = "create" /\ calls[k].ok
               /\ calls[j].id = calls[k].id
               => j = k)
    /\ [][CreatedInThisRun =>
            LET item == rss_items[idx]
            IN  IF Get(state.processed_items, ItemId(item)) = GetItemHash(item)
                THEN NewCalls = <<>>
                ELSE /\ Len(NewCalls) = 1
                     /\ NewCalls[1].op = "update" /\ NewCalls[1].id = ItemId(item)]_vars

\* a run created the issue of an identity and then updated it from a later entry
C28_Witness ==
    /\ script = "rss"
    /\ \E j, k \in DOMAIN calls :
          /\ j < k /\ calls[j].id = calls[k].id
          /\ calls[j].op = "create" /\ calls[j].ok
          /\ calls[k].op = "update"

Aligned(s) == DOMAIN s.processed_items = DOMAIN s.github_issues

\* C30: processed_items and github_issues of RSSStateManager have the same keys,
\* in memory and in every state file written, and a step of the loop of
\* rss_sync.py removes no key and changes no recorded issue number.
C30_MapsAligned ==
    /\ [](script = "rss" => Aligned(state) /\ Aligned(file.content))
    /\ [][script = "rss" /\ pc = "loop" =>
            /\ DOMAIN state.processed_items \subseteq DOMAIN state'.processed_items
            /\ \A id \in DOMAIN state.github_issues :
                  /\ id \in DOMAIN state'.github_issues
                  /\ state'.github_issues[id] = state.github_issues[id]]_vars

\* a later process loaded two records from the file and updated one of them
C30_Witness ==
    /\ script = "rss" /\ runs > 1
    /\ Cardinality(DOMAIN state.github_issues) = 2
    /\ file.kind = "valid" /\ Cardinality(DOMAIN file.content.github_issues) = 2
    /\ \E k \in DOMAIN calls : calls[k].op = "update" /\ calls[k].ok

====
